---- MODULE Spec2Model ----
(***************************************************************************)
(* Restaurant problem (semaphores + shared memory, SVIPC).                 *)
(*                                                                         *)
(* Actors: the groups (semSharedMemGroup.c), the receptionist              *)
(* (semSharedMemReceptionist.c), the waiter (semSharedMemWaiter.c) and the *)
(* chef.                                                                   *)
(*                                                                         *)
(* Atomicity.  A step of a process starts at a semDown (which can block)   *)
(* and ends at a semUp: what the code writes after a semUp belongs to the  *)
(* next step, so a process woken by a semUp can run before those writes.   *)
(* semUp calls that follow one another with nothing in between are one     *)
(* step, and a critical region that only reads and writes shared memory    *)
(* (semDown(mutex) ... semUp(mutex), no other semaphore inside) is one     *)
(* step.  A program counter names the semaphore operation a process does   *)
(* next.                                                                   *)
(***************************************************************************)
EXTENDS Integers, Sequences, FiniteSets, TLC

\* ------------------------------------------------------------------ bounds
MaxGroups == 3
MaxTables == 2

\* --------------------------------------------------------------- constants
\* receptionist's view of a group (groupRecord)
TOARRIVE == 0
WAIT == 1
ATTABLE == 2
DONE == 3

VARIABLES
  nGroups,                      \* sh->fSt.nGroups
  NUMTABLES,                    \* number of tables
  \* ---- shared memory (sh->fSt)
  groupStat,                    \* sh->fSt.st.groupStat[g]
  receptionistStat,             \* sh->fSt.st.receptionistStat
  waiterStat,                   \* sh->fSt.st.waiterStat
  chefStat,                     \* sh->fSt.st.chefStat
  assignedTable,                \* sh->fSt.assignedTable[g]
  groupsWaiting,                \* sh->fSt.groupsWaiting
  receptionistRequest,          \* sh->fSt.receptionistRequest (mailbox)
  fStWaiterRequest,             \* sh->fSt.waiterRequest (mailbox)
  foodOrder,                    \* sh->fSt.foodOrder
  foodGroup,                    \* sh->fSt.foodGroup
  \* ---- semaphores
  mutex,
  receptionistRequestPossible,
  receptionistReq,
  waiterRequestPossible,
  waiterRequest,
  waitOrder,
  orderReceived,
  waitForTable,                 \* [group -> value]
  requestReceived,              \* [table -> value]
  foodArrived,                  \* [table -> value]
  tableDone,                    \* [table -> value]
  \* ---- groups: program counter and the local table_id
  gpc,
  gTable,
  \* ---- receptionist: program counter, locals, private groupRecord
  rpc,
  rNReq,
  rReq,
  rTable,
  rNewGroup,
  groupRecord,
  \* ---- waiter
  wpc,
  wNReq,
  wReq,
  wTable,
  \* ---- chef
  cpc,
  cNOrders,
  lastGroup,
  \* ---- observation of the run
  saved,                        \* statuses each group wrote with saveState
  queued,                       \* groups the receptionist made wait
  recUnread,                    \* requests written to the receptionist mailbox, not yet copied
  wtUnread,                     \* requests written to the waiter mailbox, not yet copied
  recServed,                    \* requests the receptionist has copied
  wtServed                      \* requests the waiter has copied

shVars == <<groupStat, receptionistStat, waiterStat, chefStat, assignedTable,
            groupsWaiting, receptionistRequest, fStWaiterRequest, foodOrder,
            foodGroup>>
mailSems == <<receptionistRequestPossible, receptionistReq,
              waiterRequestPossible, waiterRequest>>
chefSems == <<waitOrder, orderReceived>>
tableSems == <<waitForTable, requestReceived, foodArrived, tableDone>>
groupVars == <<gpc, gTable>>
recVars == <<rpc, rNReq, rReq, rTable, rNewGroup, groupRecord>>
waiterVars == <<wpc, wNReq, wReq, wTable>>
chefVars == <<cpc, cNOrders, lastGroup>>
obsVars == <<saved, queued, recUnread, wtUnread, recServed, wtServed>>
cfgVars == <<nGroups, NUMTABLES>>

vars == <<cfgVars, shVars, mutex, mailSems, chefSems, tableSems, groupVars,
          recVars, waiterVars, chefVars, obsVars>>

Groups == 0 .. (nGroups - 1)
Tables == 0 .. (NUMTABLES - 1)

NoReq == [reqType |-> "NONE", reqGroup |-> -1]
Req(t, g) == [reqType |-> t, reqGroup |-> g]

\* ------------------------------------------------------------- semaphores
\* semDown blocks while the value is 0; semUp never blocks.
CanDown(s) == s > 0
Down(s) == s - 1
Up(s) == s + 1

\* ---------------------------------------------------------------- initial
InitCfg(ng, nt) ==
  /\ nGroups = ng
  /\ NUMTABLES = nt
  /\ groupStat = [g \in 0 .. (ng - 1) |-> "GOING"]
  /\ receptionistStat = "WAIT_FOR_REQUEST"
  /\ waiterStat = "WAIT_FOR_REQUEST"
  /\ chefStat = "WAIT_FOR_ORDER"
  /\ assignedTable = [g \in 0 .. (ng - 1) |-> -1]
  /\ groupsWaiting = 0
  /\ receptionistRequest = NoReq
  /\ fStWaiterRequest = NoReq
  /\ foodOrder = 0
  /\ foodGroup = -1
  /\ mutex = 1
  /\ receptionistRequestPossible = 1
  /\ receptionistReq = 0
  /\ waiterRequestPossible = 1
  /\ waiterRequest = 0
  /\ waitOrder = 0
  /\ orderReceived = 0
  /\ waitForTable = [g \in 0 .. (ng - 1) |-> 0]
  /\ requestReceived = [t \in 0 .. (nt - 1) |-> 0]
  /\ foodArrived = [t \in 0 .. (nt - 1) |-> 0]
  /\ tableDone = [t \in 0 .. (nt - 1) |-> 0]
  /\ gpc = [g \in 0 .. (ng - 1) |-> "CI_downRRP"]
  /\ gTable = [g \in 0 .. (ng - 1) |-> -1]
  /\ rpc = "WG_downMutex1"
  /\ rNReq = 0
  /\ rReq = NoReq
  /\ rTable = -1
  /\ rNewGroup = -1
  /\ groupRecord = [g \in 0 .. (ng - 1) |-> TOARRIVE]
  /\ wpc = "WC_downMutex1"
  /\ wNReq = 0
  /\ wReq = NoReq
  /\ wTable = -1
  /\ cpc = "WO_downWaitOrder"
  /\ cNOrders = 0
  /\ lastGroup = -1
  /\ saved = [g \in 0 .. (ng - 1) |-> <<"GOING">>]
  /\ queued = {}
  /\ recUnread = 0
  /\ wtUnread = 0
  /\ recServed = [r \in {"TABLEREQ", "BILLREQ"} \X (0 .. (ng - 1)) |-> 0]
  /\ wtServed = [r \in {"FOODREQ", "FOODREADY"} \X (0 .. (ng - 1)) |-> 0]

Init == \E ng \in 1 .. MaxGroups : \E nt \in 1 .. MaxTables : InitCfg(ng, nt)

\* saveState called by group g after it set its status to st
SaveGroup(g, st) == saved' = [saved EXCEPT ![g] = Append(@, st)]

\* ================================================================= GROUP
\* goToRestaurant and eat only sleep (usleep): they change nothing and are
\* part of the step that follows them (the semDown of checkInAtReception
\* and of checkOutAtReception).

\* ---- checkInAtReception
CheckInPermit(g) ==
  /\ g \in Groups
  /\ gpc[g] = "CI_downRRP"
  /\ CanDown(receptionistRequestPossible)
  /\ receptionistRequestPossible' = Down(receptionistRequestPossible)
  /\ gpc' = [gpc EXCEPT ![g] = "CI_downMutex"]
  /\ UNCHANGED <<cfgVars, shVars, mutex, receptionistReq, waiterRequestPossible,
                 waiterRequest, chefSems, tableSems, gTable, recVars,
                 waiterVars, chefVars, obsVars>>

CheckInRequest(g) ==
  /\ g \in Groups
  /\ gpc[g] = "CI_downMutex"
  /\ CanDown(mutex)
  /\ mutex' = Down(mutex)
  /\ groupStat' = [groupStat EXCEPT ![g] = "ATRECEPTION"]
  /\ SaveGroup(g, "ATRECEPTION")
  /\ receptionistRequest' = Req("TABLEREQ", g)
  /\ recUnread' = recUnread + 1
  /\ gpc' = [gpc EXCEPT ![g] = "CI_upReq"]
  /\ UNCHANGED <<cfgVars, receptionistStat, waiterStat, chefStat, assignedTable,
                 groupsWaiting, fStWaiterRequest, foodOrder, foodGroup,
                 mailSems, chefSems, tableSems, gTable, recVars, waiterVars,
                 chefVars, queued, wtUnread, recServed, wtServed>>

\* semUp(receptionistReq); semUp(mutex)
CheckInSignal(g) ==
  /\ g \in Groups
  /\ gpc[g] = "CI_upReq"
  /\ receptionistReq' = Up(receptionistReq)
  /\ mutex' = Up(mutex)
  /\ gpc' = [gpc EXCEPT ![g] = "CI_downWFT"]
  /\ UNCHANGED <<cfgVars, shVars, receptionistRequestPossible,
                 waiterRequestPossible, waiterRequest, chefSems, tableSems,
                 gTable, recVars, waiterVars, chefVars, obsVars>>

\* a checkInAtReception that returns without waiting for waitForTable[id]
CheckInWaitTable_bug(g) ==
  /\ g \in Groups
  /\ gpc[g] = "CI_downWFT"
  /\ gpc' = [gpc EXCEPT ![g] = "OF_downWRP"]
  /\ UNCHANGED <<cfgVars, shVars, mutex, mailSems, chefSems, tableSems,
                 gTable, recVars, waiterVars, chefVars, obsVars>>

\* semDown(waitForTable[g]); checkInAtReception returns
CheckInWaitTable(g) ==
  /\ g \in Groups
  /\ gpc[g] = "CI_downWFT"
  /\ CanDown(waitForTable[g])
  /\ waitForTable' = [waitForTable EXCEPT ![g] = Down(@)]
  /\ gpc' = [gpc EXCEPT ![g] = "OF_downWRP"]
  /\ UNCHANGED <<cfgVars, shVars, mutex, mailSems, chefSems, requestReceived,
                 foodArrived, tableDone, gTable, recVars, waiterVars, chefVars,
                 obsVars>>

\* ---- orderFood
OrderFoodPermit(g) ==
  /\ g \in Groups
  /\ gpc[g] = "OF_downWRP"
  /\ CanDown(waiterRequestPossible)
  /\ waiterRequestPossible' = Down(waiterRequestPossible)
  /\ gpc' = [gpc EXCEPT ![g] = "OF_downMutex"]
  /\ UNCHANGED <<cfgVars, shVars, mutex, receptionistRequestPossible,
                 receptionistReq, waiterRequest, chefSems, tableSems, gTable,
                 recVars, waiterVars, chefVars, obsVars>>

OrderFoodRequest(g) ==
  /\ g \in Groups
  /\ gpc[g] = "OF_downMutex"
  /\ CanDown(mutex)
  /\ mutex' = Down(mutex)
  /\ fStWaiterRequest' = Req("FOODREQ", g)
  /\ wtUnread' = wtUnread + 1
  /\ gpc' = [gpc EXCEPT ![g] = "OF_upReq"]
  /\ UNCHANGED <<cfgVars, groupStat, receptionistStat, waiterStat, chefStat,
                 assignedTable, groupsWaiting, receptionistRequest, foodOrder,
                 foodGroup, mailSems, chefSems, tableSems, gTable, recVars,
                 waiterVars, chefVars, saved, queued, recUnread, recServed,
                 wtServed>>

\* semUp(waiterRequest): the waiter is signalled before the status is written
OrderFoodSignal(g) ==
  /\ g \in Groups
  /\ gpc[g] = "OF_upReq"
  /\ waiterRequest' = Up(waiterRequest)
  /\ gpc' = [gpc EXCEPT ![g] = "OF_upMutex"]
  /\ UNCHANGED <<cfgVars, shVars, mutex, receptionistRequestPossible,
                 receptionistReq, waiterRequestPossible, chefSems, tableSems,
                 gTable, recVars, waiterVars, chefVars, obsVars>>

\* the status and the table id, still in the mutex; semUp(mutex)
OrderFoodExit(g) ==
  /\ g \in Groups
  /\ gpc[g] = "OF_upMutex"
  /\ groupStat' = [groupStat EXCEPT ![g] = "FOOD_REQUEST"]
  /\ SaveGroup(g, "FOOD_REQUEST")
  /\ gTable' = [gTable EXCEPT ![g] = assignedTable[g]]
  /\ mutex' = Up(mutex)
  /\ gpc' = [gpc EXCEPT ![g] = "OF_downRR"]
  /\ UNCHANGED <<cfgVars, receptionistStat, waiterStat, chefStat, assignedTable,
                 groupsWaiting, receptionistRequest, fStWaiterRequest,
                 foodOrder, foodGroup, mailSems, chefSems, tableSems, recVars,
                 waiterVars, chefVars, queued, recUnread, wtUnread, recServed,
                 wtServed>>

\* an orderFood that returns without waiting for requestReceived[table_id]
OrderFoodWaitReceived_bug(g) ==
  /\ g \in Groups
  /\ gpc[g] = "OF_downRR"
  /\ gTable[g] \in Tables
  /\ gpc' = [gpc EXCEPT ![g] = "WF_downMutex1"]
  /\ UNCHANGED <<cfgVars, shVars, mutex, mailSems, chefSems, tableSems,
                 gTable, recVars, waiterVars, chefVars, obsVars>>

\* semDown(requestReceived[table_id]); orderFood returns
OrderFoodWaitReceived(g) ==
  /\ g \in Groups
  /\ gpc[g] = "OF_downRR"
  /\ gTable[g] \in Tables
  /\ CanDown(requestReceived[gTable[g]])
  /\ requestReceived' = [requestReceived EXCEPT ![gTable[g]] = Down(@)]
  /\ gpc' = [gpc EXCEPT ![g] = "WF_downMutex1"]
  /\ UNCHANGED <<cfgVars, shVars, mutex, mailSems, chefSems, waitForTable,
                 foodArrived, tableDone, gTable, recVars, waiterVars, chefVars,
                 obsVars>>

\* a waitFood that does not write the status WAIT_FOR_FOOD
WaitFoodStatus_bug(g) ==
  /\ g \in Groups
  /\ gpc[g] = "WF_downMutex1"
  /\ CanDown(mutex)
  /\ UNCHANGED <<groupStat, saved>>
  /\ gTable' = [gTable EXCEPT ![g] = assignedTable[g]]
  /\ gpc' = [gpc EXCEPT ![g] = "WF_downFA"]
  /\ UNCHANGED <<cfgVars, receptionistStat, waiterStat, chefStat, assignedTable,
                 groupsWaiting, receptionistRequest, fStWaiterRequest,
                 foodOrder, foodGroup, mutex, mailSems, chefSems, tableSems,
                 recVars, waiterVars, chefVars, queued, recUnread, wtUnread,
                 recServed, wtServed>>

\* ---- waitFood
\* first critical region: semDown(mutex) ... semUp(mutex)
WaitFoodStatus(g) ==
  /\ g \in Groups
  /\ gpc[g] = "WF_downMutex1"
  /\ CanDown(mutex)
  /\ groupStat' = [groupStat EXCEPT ![g] = "WAIT_FOR_FOOD"]
  /\ SaveGroup(g, "WAIT_FOR_FOOD")
  /\ gTable' = [gTable EXCEPT ![g] = assignedTable[g]]
  /\ gpc' = [gpc EXCEPT ![g] = "WF_downFA"]
  /\ UNCHANGED <<cfgVars, receptionistStat, waiterStat, chefStat, assignedTable,
                 groupsWaiting, receptionistRequest, fStWaiterRequest,
                 foodOrder, foodGroup, mutex, mailSems, chefSems, tableSems,
                 recVars, waiterVars, chefVars, queued, recUnread, wtUnread,
                 recServed, wtServed>>

WaitFoodArrived(g) ==
  /\ g \in Groups
  /\ gpc[g] = "WF_downFA"
  /\ gTable[g] \in Tables
  /\ CanDown(foodArrived[gTable[g]])
  /\ foodArrived' = [foodArrived EXCEPT ![gTable[g]] = Down(@)]
  /\ gpc' = [gpc EXCEPT ![g] = "WF_downMutex2"]
  /\ UNCHANGED <<cfgVars, shVars, mutex, mailSems, chefSems, waitForTable,
                 requestReceived, tableDone, gTable, recVars, waiterVars,
                 chefVars, obsVars>>

\* a waitFood that writes the status EAT without semDown(mutex)
WaitFoodEat_bug(g) ==
  /\ g \in Groups
  /\ gpc[g] = "WF_downMutex2"
  /\ groupStat' = [groupStat EXCEPT ![g] = "EAT"]
  /\ SaveGroup(g, "EAT")
  /\ gpc' = [gpc EXCEPT ![g] = "CO_downRRP"]
  /\ UNCHANGED <<cfgVars, receptionistStat, waiterStat, chefStat, assignedTable,
                 groupsWaiting, receptionistRequest, fStWaiterRequest,
                 foodOrder, foodGroup, mutex, mailSems, chefSems, tableSems,
                 gTable, recVars, waiterVars, chefVars, queued, recUnread,
                 wtUnread, recServed, wtServed>>

\* second critical region: semDown(mutex) ... semUp(mutex); then eat
WaitFoodEat(g) ==
  /\ g \in Groups
  /\ gpc[g] = "WF_downMutex2"
  /\ CanDown(mutex)
  /\ groupStat' = [groupStat EXCEPT ![g] = "EAT"]
  /\ SaveGroup(g, "EAT")
  /\ gpc' = [gpc EXCEPT ![g] = "CO_downRRP"]
  /\ UNCHANGED <<cfgVars, receptionistStat, waiterStat, chefStat, assignedTable,
                 groupsWaiting, receptionistRequest, fStWaiterRequest,
                 foodOrder, foodGroup, mutex, mailSems, chefSems, tableSems,
                 gTable, recVars, waiterVars, chefVars, queued, recUnread,
                 wtUnread, recServed, wtServed>>

\* ---- checkOutAtReception
\* a checkOutAtReception without the semDown of receptionistRequestPossible
CheckOutPermit_bug(g) ==
  /\ g \in Groups
  /\ gpc[g] = "CO_downRRP"
  /\ UNCHANGED receptionistRequestPossible
  /\ gpc' = [gpc EXCEPT ![g] = "CO_downMutex1"]
  /\ UNCHANGED <<cfgVars, shVars, mutex, receptionistReq, waiterRequestPossible,
                 waiterRequest, chefSems, tableSems, gTable, recVars,
                 waiterVars, chefVars, obsVars>>

CheckOutPermit(g) ==
  /\ g \in Groups
  /\ gpc[g] = "CO_downRRP"
  /\ CanDown(receptionistRequestPossible)
  /\ receptionistRequestPossible' = Down(receptionistRequestPossible)
  /\ gpc' = [gpc EXCEPT ![g] = "CO_downMutex1"]
  /\ UNCHANGED <<cfgVars, shVars, mutex, receptionistReq, waiterRequestPossible,
                 waiterRequest, chefSems, tableSems, gTable, recVars,
                 waiterVars, chefVars, obsVars>>

CheckOutRequest(g) ==
  /\ g \in Groups
  /\ gpc[g] = "CO_downMutex1"
  /\ CanDown(mutex)
  /\ mutex' = Down(mutex)
  /\ groupStat' = [groupStat EXCEPT ![g] = "CHECKOUT"]
  /\ SaveGroup(g, "CHECKOUT")
  /\ gTable' = [gTable EXCEPT ![g] = assignedTable[g]]
  /\ receptionistRequest' = Req("BILLREQ", g)
  /\ recUnread' = recUnread + 1
  /\ gpc' = [gpc EXCEPT ![g] = "CO_upReq"]
  /\ UNCHANGED <<cfgVars, receptionistStat, waiterStat, chefStat, assignedTable,
                 groupsWaiting, fStWaiterRequest, foodOrder, foodGroup,
                 mailSems, chefSems, tableSems, recVars, waiterVars, chefVars,
                 queued, wtUnread, recServed, wtServed>>

\* semUp(receptionistReq); semUp(mutex)
CheckOutSignal(g) ==
  /\ g \in Groups
  /\ gpc[g] = "CO_upReq"
  /\ receptionistReq' = Up(receptionistReq)
  /\ mutex' = Up(mutex)
  /\ gpc' = [gpc EXCEPT ![g] = "CO_downTD"]
  /\ UNCHANGED <<cfgVars, shVars, receptionistRequestPossible,
                 waiterRequestPossible, waiterRequest, chefSems, tableSems,
                 gTable, recVars, waiterVars, chefVars, obsVars>>

CheckOutWaitDone(g) ==
  /\ g \in Groups
  /\ gpc[g] = "CO_downTD"
  /\ gTable[g] \in Tables
  /\ CanDown(tableDone[gTable[g]])
  /\ tableDone' = [tableDone EXCEPT ![gTable[g]] = Down(@)]
  /\ gpc' = [gpc EXCEPT ![g] = "CO_downMutex2"]
  /\ UNCHANGED <<cfgVars, shVars, mutex, mailSems, chefSems, waitForTable,
                 requestReceived, foodArrived, gTable, recVars, waiterVars,
                 chefVars, obsVars>>

\* last critical region: semDown(mutex) ... semUp(mutex); the group is done
CheckOutLeave(g) ==
  /\ g \in Groups
  /\ gpc[g] = "CO_downMutex2"
  /\ CanDown(mutex)
  /\ groupStat' = [groupStat EXCEPT ![g] = "LEAVING"]
  /\ SaveGroup(g, "LEAVING")
  /\ gpc' = [gpc EXCEPT ![g] = "done"]
  /\ UNCHANGED <<cfgVars, receptionistStat, waiterStat, chefStat, assignedTable,
                 groupsWaiting, receptionistRequest, fStWaiterRequest,
                 foodOrder, foodGroup, mutex, mailSems, chefSems, tableSems,
                 gTable, recVars, waiterVars, chefVars, queued, recUnread,
                 wtUnread, recServed, wtServed>>

GroupStep(g) ==
  \/ CheckInPermit(g) \/ CheckInRequest(g) \/ CheckInSignal(g)
  \/ CheckInWaitTable(g)
  \/ OrderFoodPermit(g) \/ OrderFoodRequest(g) \/ OrderFoodSignal(g)
  \/ OrderFoodExit(g) \/ OrderFoodWaitReceived(g)
  \/ WaitFoodStatus(g) \/ WaitFoodArrived(g) \/ WaitFoodEat(g)
  \/ CheckOutPermit(g) \/ CheckOutRequest(g) \/ CheckOutSignal(g)
  \/ CheckOutWaitDone(g) \/ CheckOutLeave(g)

\* ========================================================== RECEPTIONIST
\* a scan of the tables that returns the highest free table
RECURSIVE ScanTablesDown(_)
ScanTablesDown(table) ==
  IF table < 0 THEN -1
  ELSE IF \E group \in Groups : assignedTable[group] = table
       THEN ScanTablesDown(table - 1)
       ELSE table

ScanTables_bug(table) == ScanTablesDown(NUMTABLES - 1)

\* decideTableOrWait: the scan of the tables from `table` on; a table is
\* taken when some group has it in assignedTable
RECURSIVE ScanTables(_)
ScanTables(table) ==
  IF table >= NUMTABLES THEN -1
  ELSE IF \E group \in Groups : assignedTable[group] = table
       THEN ScanTables(table + 1)
       ELSE table

\* a decideTableOrWait that does not look at assignedTable
decideTableOrWait_bug(group_id) == 0

decideTableOrWait(group_id) == ScanTables(0)

\* decideNextGroup: the scan of the receptionist's record from `group_id` on
RECURSIVE ScanGroups(_, _)
ScanGroups(record, group_id) ==
  IF group_id >= nGroups THEN -1
  ELSE IF record[group_id] = WAIT THEN group_id
       ELSE ScanGroups(record, group_id + 1)

\* a decideNextGroup that scans the record from the highest id down
RECURSIVE ScanGroupsDown(_, _)
ScanGroupsDown(record, group_id) ==
  IF group_id < 0 THEN -1
  ELSE IF record[group_id] = WAIT THEN group_id
       ELSE ScanGroupsDown(record, group_id - 1)

decideNextGroup_bug(record) ==
  IF groupsWaiting <= 0 THEN -1 ELSE ScanGroupsDown(record, nGroups - 1)

decideNextGroup(record) ==
  IF groupsWaiting <= 0 THEN -1 ELSE ScanGroups(record, 0)

\* a loop test that lets the receptionist wait for one request more
RecLoop_bug(n) == IF n < nGroups * 2 + 1 THEN "WG_downMutex1" ELSE "done"

\* the test of the receptionist's main loop after nReq++
RecLoop(n) == IF n < nGroups * 2 THEN "WG_downMutex1" ELSE "done"

\* a switch that handles every request as a table request
RecDispatch_bug(req) == "PT_downMutex"

\* the switch of the receptionist's main loop
RecDispatch(req) ==
  CASE req.reqType = "TABLEREQ" -> "PT_downMutex"
    [] req.reqType = "BILLREQ" -> "RP_downMutex"

Count(served, req) ==
  IF <<req.reqType, req.reqGroup>> \in DOMAIN served
    THEN [served EXCEPT ![<<req.reqType, req.reqGroup>>] = @ + 1]
    ELSE served

\* ---- waitForGroup
\* first critical region: semDown(mutex) ... semUp(mutex)
WaitForGroupStatus ==
  /\ rpc = "WG_downMutex1"
  /\ CanDown(mutex)
  /\ receptionistStat' = "WAIT_FOR_REQUEST"
  /\ rpc' = "WG_downReq"
  /\ UNCHANGED <<cfgVars, groupStat, waiterStat, chefStat, assignedTable,
                 groupsWaiting, receptionistRequest, fStWaiterRequest,
                 foodOrder, foodGroup, mutex, mailSems, chefSems, tableSems,
                 groupVars, rNReq, rReq, rTable, rNewGroup, groupRecord,
                 waiterVars, chefVars, obsVars>>

WaitForGroupRequest ==
  /\ rpc = "WG_downReq"
  /\ CanDown(receptionistReq)
  /\ receptionistReq' = Down(receptionistReq)
  /\ rpc' = "WG_downMutex2"
  /\ UNCHANGED <<cfgVars, shVars, mutex, receptionistRequestPossible,
                 waiterRequestPossible, waiterRequest, chefSems, tableSems,
                 groupVars, rNReq, rReq, rTable, rNewGroup, groupRecord,
                 waiterVars, chefVars, obsVars>>

\* second critical region: the request is copied out of the mailbox
WaitForGroupCopy ==
  /\ rpc = "WG_downMutex2"
  /\ CanDown(mutex)
  /\ rReq' = receptionistRequest
  /\ recUnread' = recUnread - 1
  /\ recServed' = Count(recServed, receptionistRequest)
  /\ rpc' = "WG_upRRP"
  /\ UNCHANGED <<cfgVars, shVars, mutex, mailSems, chefSems, tableSems,
                 groupVars, rNReq, rTable, rNewGroup, groupRecord, waiterVars,
                 chefVars, saved, queued, wtUnread, wtServed>>

\* the permit is given back and main dispatches on the copied request
\* (a request type the switch has no case for only counts: nReq++)
WaitForGroupRelease ==
  /\ rpc = "WG_upRRP"
  /\ receptionistRequestPossible' = Up(receptionistRequestPossible)
  /\ IF rReq.reqType \in {"TABLEREQ", "BILLREQ"}
       THEN rpc' = RecDispatch(rReq) /\ UNCHANGED rNReq
       ELSE rNReq' = rNReq + 1 /\ rpc' = RecLoop(rNReq + 1)
  /\ UNCHANGED <<cfgVars, shVars, mutex, receptionistReq, waiterRequestPossible,
                 waiterRequest, chefSems, tableSems, groupVars, rReq, rTable,
                 rNewGroup, groupRecord, waiterVars, chefVars, obsVars>>

\* a provideTableOrWaitingRoom that seats the group without marking its
\* record ATTABLE
ProvideEnter_bug ==
  /\ rpc = "PT_downMutex"
  /\ CanDown(mutex)
  /\ mutex' = Down(mutex)
  /\ receptionistStat' = "ASSIGNTABLE"
  /\ LET group_id == rReq.reqGroup
         table_id == decideTableOrWait(group_id)
     IN IF groupRecord[group_id] >= 2
          THEN /\ rpc' = "assertFailed"
               /\ UNCHANGED <<groupsWaiting, groupRecord, assignedTable,
                              rTable, queued>>
          ELSE IF table_id < 0
            THEN /\ groupsWaiting' = groupsWaiting + 1
                 /\ groupRecord' = [groupRecord EXCEPT ![group_id] = WAIT]
                 /\ queued' = queued \cup {group_id}
                 /\ rTable' = table_id
                 /\ rpc' = "PT_upMutex"
                 /\ UNCHANGED assignedTable
            ELSE /\ assignedTable' = [assignedTable EXCEPT ![group_id] = table_id]
                 /\ rTable' = table_id
                 /\ rpc' = "PT_upWFT"
                 /\ UNCHANGED <<groupsWaiting, queued, groupRecord>>
  /\ UNCHANGED <<cfgVars, groupStat, waiterStat, chefStat, receptionistRequest,
                 fStWaiterRequest, foodOrder, foodGroup, mailSems, chefSems,
                 tableSems, groupVars, rNReq, rReq, rNewGroup, waiterVars,
                 chefVars, saved, recUnread, wtUnread, recServed, wtServed>>

\* ---- provideTableOrWaitingRoom(rReq.reqGroup)
ProvideEnter ==
  /\ rpc = "PT_downMutex"
  /\ CanDown(mutex)
  /\ mutex' = Down(mutex)
  /\ receptionistStat' = "ASSIGNTABLE"
  /\ LET group_id == rReq.reqGroup
         table_id == decideTableOrWait(group_id)
     IN IF groupRecord[group_id] >= 2
          THEN \* assert fails: the process aborts
               /\ rpc' = "assertFailed"
               /\ UNCHANGED <<groupsWaiting, groupRecord, assignedTable,
                              rTable, queued>>
          ELSE IF table_id < 0
            THEN /\ groupsWaiting' = groupsWaiting + 1
                 /\ groupRecord' = [groupRecord EXCEPT ![group_id] = WAIT]
                 /\ queued' = queued \cup {group_id}
                 /\ rTable' = table_id
                 /\ rpc' = "PT_upMutex"
                 /\ UNCHANGED assignedTable
            ELSE /\ groupRecord' = [groupRecord EXCEPT ![group_id] = ATTABLE]
                 /\ assignedTable' = [assignedTable EXCEPT ![group_id] = table_id]
                 /\ rTable' = table_id
                 /\ rpc' = "PT_upWFT"
                 /\ UNCHANGED <<groupsWaiting, queued>>
  /\ UNCHANGED <<cfgVars, groupStat, waiterStat, chefStat, receptionistRequest,
                 fStWaiterRequest, foodOrder, foodGroup, mailSems, chefSems,
                 tableSems, groupVars, rNReq, rReq, rNewGroup, waiterVars,
                 chefVars, saved, recUnread, wtUnread, recServed, wtServed>>

\* a table was found: semUp(waitForTable[group_id]); semUp(mutex); nReq++
ProvideSignal ==
  /\ rpc = "PT_upWFT"
  /\ waitForTable' = [waitForTable EXCEPT ![rReq.reqGroup] = Up(@)]
  /\ mutex' = Up(mutex)
  /\ rNReq' = rNReq + 1
  /\ rpc' = RecLoop(rNReq + 1)
  /\ UNCHANGED <<cfgVars, shVars, mailSems, chefSems, requestReceived,
                 foodArrived, tableDone, groupVars, rReq, rTable, rNewGroup,
                 groupRecord, waiterVars, chefVars, obsVars>>

\* a provideTableOrWaitingRoom that signals the group it makes wait
ProvideExit_bug ==
  /\ rpc = "PT_upMutex"
  /\ waitForTable' = [waitForTable EXCEPT ![rReq.reqGroup] = Up(@)]
  /\ mutex' = Up(mutex)
  /\ rNReq' = rNReq + 1
  /\ rpc' = RecLoop(rNReq + 1)
  /\ UNCHANGED <<cfgVars, shVars, mailSems, chefSems, requestReceived,
                 foodArrived, tableDone, groupVars, rReq, rTable, rNewGroup,
                 groupRecord, waiterVars, chefVars, obsVars>>

\* the group has to wait: semUp(mutex) only; nReq++
ProvideExit ==
  /\ rpc = "PT_upMutex"
  /\ mutex' = Up(mutex)
  /\ rNReq' = rNReq + 1
  /\ rpc' = RecLoop(rNReq + 1)
  /\ UNCHANGED <<cfgVars, shVars, mailSems, chefSems, tableSems, groupVars,
                 rReq, rTable, rNewGroup, groupRecord, waiterVars, chefVars,
                 obsVars>>

\* a receivePayment that frees the table without looking for a waiting group
PaymentEnter_bug ==
  /\ rpc = "RP_downMutex"
  /\ CanDown(mutex)
  /\ mutex' = Down(mutex)
  /\ receptionistStat' = "RECVPAY"
  /\ rTable' = assignedTable[rReq.reqGroup]
  /\ assignedTable' = [assignedTable EXCEPT ![rReq.reqGroup] = -1]
  /\ rNewGroup' = -1
  /\ groupRecord' = [groupRecord EXCEPT ![rReq.reqGroup] = DONE]
  /\ rpc' = "RP_upMutex"
  /\ UNCHANGED <<cfgVars, groupStat, waiterStat, chefStat, groupsWaiting,
                 receptionistRequest, fStWaiterRequest, foodOrder, foodGroup,
                 mailSems, chefSems, tableSems, groupVars, rNReq, rReq,
                 waiterVars, chefVars, obsVars>>

\* ---- receivePayment(rReq.reqGroup)
PaymentEnter ==
  /\ rpc = "RP_downMutex"
  /\ CanDown(mutex)
  /\ mutex' = Down(mutex)
  /\ receptionistStat' = "RECVPAY"
  /\ LET group_id == rReq.reqGroup
         record1 == [groupRecord EXCEPT ![group_id] = DONE]
         new_group_id == IF groupsWaiting > 0 THEN decideNextGroup(record1)
                         ELSE -1
     IN /\ rTable' = assignedTable[group_id]
        /\ assignedTable' = [assignedTable EXCEPT ![group_id] = -1]
        /\ rNewGroup' = new_group_id
        /\ IF groupsWaiting > 0 /\ new_group_id > -1
             THEN /\ groupRecord' = [record1 EXCEPT ![new_group_id] = ATTABLE]
                  /\ rpc' = "RP_upWFT"
             ELSE /\ groupRecord' = record1
                  /\ rpc' = "RP_upMutex"
  /\ UNCHANGED <<cfgVars, groupStat, waiterStat, chefStat, groupsWaiting,
                 receptionistRequest, fStWaiterRequest, foodOrder, foodGroup,
                 mailSems, chefSems, tableSems, groupVars, rNReq, rReq,
                 waiterVars, chefVars, obsVars>>

\* a receivePayment that signals the chosen group twice
PaymentSignal_bug ==
  /\ rpc = "RP_upWFT"
  /\ waitForTable' = [waitForTable EXCEPT ![rNewGroup] = Up(Up(@))]
  /\ rpc' = "RP_assign"
  /\ UNCHANGED <<cfgVars, shVars, mutex, mailSems, chefSems, requestReceived,
                 foodArrived, tableDone, groupVars, rNReq, rReq, rTable,
                 rNewGroup, groupRecord, waiterVars, chefVars, obsVars>>

\* semUp(waitForTable[new_group_id]): the chosen group is woken before the
\* table is written into its entry
PaymentSignal ==
  /\ rpc = "RP_upWFT"
  /\ waitForTable' = [waitForTable EXCEPT ![rNewGroup] = Up(@)]
  /\ rpc' = "RP_assign"
  /\ UNCHANGED <<cfgVars, shVars, mutex, mailSems, chefSems, requestReceived,
                 foodArrived, tableDone, groupVars, rNReq, rReq, rTable,
                 rNewGroup, groupRecord, waiterVars, chefVars, obsVars>>

\* a receivePayment that does not decrement groupsWaiting
PaymentAssign_bug ==
  /\ rpc = "RP_assign"
  /\ assignedTable' = [assignedTable EXCEPT ![rNewGroup] = rTable]
  /\ mutex' = Up(mutex)
  /\ rpc' = "RP_upTD"
  /\ UNCHANGED <<cfgVars, groupStat, receptionistStat, waiterStat, chefStat,
                 groupsWaiting, receptionistRequest, fStWaiterRequest,
                 foodOrder, foodGroup, mailSems, chefSems, tableSems,
                 groupVars, rNReq, rReq, rTable, rNewGroup, groupRecord,
                 waiterVars, chefVars, obsVars>>

\* groupsWaiting--; assignedTable[new_group_id] = table_id; semUp(mutex)
PaymentAssign ==
  /\ rpc = "RP_assign"
  /\ groupsWaiting' = groupsWaiting - 1
  /\ assignedTable' = [assignedTable EXCEPT ![rNewGroup] = rTable]
  /\ mutex' = Up(mutex)
  /\ rpc' = "RP_upTD"
  /\ UNCHANGED <<cfgVars, groupStat, receptionistStat, waiterStat, chefStat,
                 receptionistRequest, fStWaiterRequest, foodOrder, foodGroup,
                 mailSems, chefSems, tableSems, groupVars, rNReq, rReq, rTable,
                 rNewGroup, groupRecord, waiterVars, chefVars, obsVars>>

\* no group was waiting: semUp(mutex)
PaymentExit ==
  /\ rpc = "RP_upMutex"
  /\ mutex' = Up(mutex)
  /\ rpc' = "RP_upTD"
  /\ UNCHANGED <<cfgVars, shVars, mailSems, chefSems, tableSems, groupVars,
                 rNReq, rReq, rTable, rNewGroup, groupRecord, waiterVars,
                 chefVars, obsVars>>

\* semUp(tableDone[table_id]); nReq++
PaymentDone ==
  /\ rpc = "RP_upTD"
  /\ rTable \in Tables
  /\ tableDone' = [tableDone EXCEPT ![rTable] = Up(@)]
  /\ rNReq' = rNReq + 1
  /\ rpc' = RecLoop(rNReq + 1)
  /\ UNCHANGED <<cfgVars, shVars, mutex, mailSems, chefSems, waitForTable,
                 requestReceived, foodArrived, groupVars, rReq, rTable,
                 rNewGroup, groupRecord, waiterVars, chefVars, obsVars>>

ReceptionistStep ==
  \/ WaitForGroupStatus \/ WaitForGroupRequest \/ WaitForGroupCopy
  \/ WaitForGroupRelease
  \/ ProvideEnter \/ ProvideSignal \/ ProvideExit
  \/ PaymentEnter \/ PaymentSignal \/ PaymentAssign \/ PaymentExit
  \/ PaymentDone

\* ================================================================ WAITER
\* the test of the waiter's main loop after nReq++
WaiterLoop(n) == IF n < nGroups * 2 THEN "WC_downMutex1" ELSE "done"

\* the switch of the waiter's main loop
WaiterDispatch(req) ==
  CASE req.reqType = "FOODREQ" -> "IC_downMutex"
    [] req.reqType = "FOODREADY" -> "TF_downMutex"

\* ---- waitForClientOrChef
\* first critical region: semDown(mutex) ... semUp(mutex)
WaitForClientStatus ==
  /\ wpc = "WC_downMutex1"
  /\ CanDown(mutex)
  /\ waiterStat' = "WAIT_FOR_REQUEST"
  /\ wpc' = "WC_downReq"
  /\ UNCHANGED <<cfgVars, groupStat, receptionistStat, chefStat, assignedTable,
                 groupsWaiting, receptionistRequest, fStWaiterRequest,
                 foodOrder, foodGroup, mutex, mailSems, chefSems, tableSems,
                 groupVars, recVars, wNReq, wReq, wTable, chefVars, obsVars>>

WaitForClientRequest ==
  /\ wpc = "WC_downReq"
  /\ CanDown(waiterRequest)
  /\ waiterRequest' = Down(waiterRequest)
  /\ wpc' = "WC_downMutex2"
  /\ UNCHANGED <<cfgVars, shVars, mutex, receptionistRequestPossible,
                 receptionistReq, waiterRequestPossible, chefSems, tableSems,
                 groupVars, recVars, wNReq, wReq, wTable, chefVars, obsVars>>

\* second critical region: the request is copied out of the mailbox
WaitForClientCopy ==
  /\ wpc = "WC_downMutex2"
  /\ CanDown(mutex)
  /\ wReq' = fStWaiterRequest
  /\ wtUnread' = wtUnread - 1
  /\ wtServed' = Count(wtServed, fStWaiterRequest)
  /\ wpc' = "WC_upWRP"
  /\ UNCHANGED <<cfgVars, shVars, mutex, mailSems, chefSems, tableSems,
                 groupVars, recVars, wNReq, wTable, chefVars, saved, queued,
                 recUnread, recServed>>

\* the permit is given back and main dispatches on the copied request
\* (a request type the switch has no case for only counts: nReq++)
WaitForClientRelease ==
  /\ wpc = "WC_upWRP"
  /\ waiterRequestPossible' = Up(waiterRequestPossible)
  /\ IF wReq.reqType \in {"FOODREQ", "FOODREADY"}
       THEN wpc' = WaiterDispatch(wReq) /\ UNCHANGED wNReq
       ELSE wNReq' = wNReq + 1 /\ wpc' = WaiterLoop(wNReq + 1)
  /\ UNCHANGED <<cfgVars, shVars, mutex, receptionistRequestPossible,
                 receptionistReq, waiterRequest, chefSems, tableSems,
                 groupVars, recVars, wReq, wTable, chefVars, obsVars>>

\* ---- informChef(wReq.reqGroup)
\* critical region: semDown(mutex) ... semUp(mutex)
InformChefOrderSlot ==
  /\ wpc = "IC_downMutex"
  /\ CanDown(mutex)
  /\ waiterStat' = "INFORM_CHEF"
  /\ foodOrder' = 1
  /\ foodGroup' = wReq.reqGroup
  /\ wTable' = assignedTable[wReq.reqGroup]
  /\ wpc' = "IC_upRR"
  /\ UNCHANGED <<cfgVars, groupStat, receptionistStat, chefStat, assignedTable,
                 groupsWaiting, receptionistRequest, fStWaiterRequest, mutex,
                 mailSems, chefSems, tableSems, groupVars, recVars, wNReq,
                 wReq, chefVars, obsVars>>

InformChefAckGroup ==
  /\ wpc = "IC_upRR"
  /\ wTable \in Tables
  /\ requestReceived' = [requestReceived EXCEPT ![wTable] = Up(@)]
  /\ wpc' = "IC_upWaitOrder"
  /\ UNCHANGED <<cfgVars, shVars, mutex, mailSems, chefSems, waitForTable,
                 foodArrived, tableDone, groupVars, recVars, wNReq, wReq,
                 wTable, chefVars, obsVars>>

InformChefOrder ==
  /\ wpc = "IC_upWaitOrder"
  /\ waitOrder' = Up(waitOrder)
  /\ wpc' = "IC_downOrderReceived"
  /\ UNCHANGED <<cfgVars, shVars, mutex, mailSems, orderReceived, tableSems,
                 groupVars, recVars, wNReq, wReq, wTable, chefVars, obsVars>>

\* an informChef that returns without waiting for orderReceived
InformChefWaitAck_bug ==
  /\ wpc = "IC_downOrderReceived"
  /\ wNReq' = wNReq + 1
  /\ wpc' = WaiterLoop(wNReq + 1)
  /\ UNCHANGED <<cfgVars, shVars, mutex, mailSems, chefSems, tableSems,
                 groupVars, recVars, wReq, wTable, chefVars, obsVars>>

InformChefWaitAck ==
  /\ wpc = "IC_downOrderReceived"
  /\ CanDown(orderReceived)
  /\ orderReceived' = Down(orderReceived)
  /\ wNReq' = wNReq + 1
  /\ wpc' = WaiterLoop(wNReq + 1)
  /\ UNCHANGED <<cfgVars, shVars, mutex, mailSems, waitOrder, tableSems,
                 groupVars, recVars, wReq, wTable, chefVars, obsVars>>

\* a takeFoodToTable in which the waiter sets the group's status to EAT
TakeFoodEnter_bug ==
  /\ wpc = "TF_downMutex"
  /\ CanDown(mutex)
  /\ mutex' = Down(mutex)
  /\ waiterStat' = "TAKE_TO_TABLE"
  /\ groupStat' = [groupStat EXCEPT ![wReq.reqGroup] = "EAT"]
  /\ wTable' = assignedTable[wReq.reqGroup]
  /\ wpc' = "TF_upFA"
  /\ UNCHANGED <<cfgVars, receptionistStat, chefStat, assignedTable,
                 groupsWaiting, receptionistRequest, fStWaiterRequest,
                 foodOrder, foodGroup, mailSems, chefSems, tableSems,
                 groupVars, recVars, wNReq, wReq, chefVars, obsVars>>

\* ---- takeFoodToTable(wReq.reqGroup)
TakeFoodEnter ==
  /\ wpc = "TF_downMutex"
  /\ CanDown(mutex)
  /\ mutex' = Down(mutex)
  /\ waiterStat' = "TAKE_TO_TABLE"
  /\ wTable' = assignedTable[wReq.reqGroup]
  /\ wpc' = "TF_upFA"
  /\ UNCHANGED <<cfgVars, groupStat, receptionistStat, chefStat, assignedTable,
                 groupsWaiting, receptionistRequest, fStWaiterRequest,
                 foodOrder, foodGroup, mailSems, chefSems, tableSems,
                 groupVars, recVars, wNReq, wReq, chefVars, obsVars>>

\* semUp(foodArrived[table_id]); semUp(mutex); nReq++
TakeFoodSignal ==
  /\ wpc = "TF_upFA"
  /\ wTable \in Tables
  /\ foodArrived' = [foodArrived EXCEPT ![wTable] = Up(@)]
  /\ mutex' = Up(mutex)
  /\ wNReq' = wNReq + 1
  /\ wpc' = WaiterLoop(wNReq + 1)
  /\ UNCHANGED <<cfgVars, shVars, mailSems, chefSems, waitForTable,
                 requestReceived, tableDone, groupVars, recVars, wReq, wTable,
                 chefVars, obsVars>>

WaiterStep ==
  \/ WaitForClientStatus \/ WaitForClientRequest \/ WaitForClientCopy
  \/ WaitForClientRelease
  \/ InformChefOrderSlot \/ InformChefAckGroup \/ InformChefOrder
  \/ InformChefWaitAck
  \/ TakeFoodEnter \/ TakeFoodSignal

\* ================================================================== CHEF
\* The chef waits for an order, acknowledges it, cooks, and posts FOODREADY
\* for the same group in the waiter's mailbox under the waiter's permit.
ChefLoop(n) == IF n < nGroups THEN "WO_downWaitOrder" ELSE "done"

ChefWaitOrder ==
  /\ cpc = "WO_downWaitOrder"
  /\ CanDown(waitOrder)
  /\ waitOrder' = Down(waitOrder)
  /\ cpc' = "WO_downMutex"
  /\ UNCHANGED <<cfgVars, shVars, mutex, mailSems, orderReceived, tableSems,
                 groupVars, recVars, waiterVars, cNOrders, lastGroup, obsVars>>

\* critical region: semDown(mutex) ... semUp(mutex)
ChefTakeOrder ==
  /\ cpc = "WO_downMutex"
  /\ CanDown(mutex)
  /\ lastGroup' = foodGroup
  /\ foodOrder' = 0
  /\ chefStat' = "COOK"
  /\ cpc' = "WO_upOrderReceived"
  /\ UNCHANGED <<cfgVars, groupStat, receptionistStat, waiterStat,
                 assignedTable, groupsWaiting, receptionistRequest,
                 fStWaiterRequest, foodGroup, mutex, mailSems, chefSems,
                 tableSems, groupVars, recVars, waiterVars, cNOrders, obsVars>>

ChefAckOrder ==
  /\ cpc = "WO_upOrderReceived"
  /\ orderReceived' = Up(orderReceived)
  /\ cpc' = "PO_downWRP"
  /\ UNCHANGED <<cfgVars, shVars, mutex, mailSems, waitOrder, tableSems,
                 groupVars, recVars, waiterVars, cNOrders, lastGroup, obsVars>>

ChefPermit ==
  /\ cpc = "PO_downWRP"
  /\ CanDown(waiterRequestPossible)
  /\ waiterRequestPossible' = Down(waiterRequestPossible)
  /\ cpc' = "PO_downMutex"
  /\ UNCHANGED <<cfgVars, shVars, mutex, receptionistRequestPossible,
                 receptionistReq, waiterRequest, chefSems, tableSems,
                 groupVars, recVars, waiterVars, cNOrders, lastGroup, obsVars>>

\* critical region: semDown(mutex) ... semUp(mutex)
ChefFoodReady ==
  /\ cpc = "PO_downMutex"
  /\ CanDown(mutex)
  /\ fStWaiterRequest' = Req("FOODREADY", lastGroup)
  /\ wtUnread' = wtUnread + 1
  /\ chefStat' = "WAIT_FOR_ORDER"
  /\ cpc' = "PO_upReq"
  /\ UNCHANGED <<cfgVars, groupStat, receptionistStat, waiterStat,
                 assignedTable, groupsWaiting, receptionistRequest, foodOrder,
                 foodGroup, mutex, mailSems, chefSems, tableSems, groupVars,
                 recVars, waiterVars, cNOrders, lastGroup, saved, queued,
                 recUnread, recServed, wtServed>>

ChefSignalWaiter ==
  /\ cpc = "PO_upReq"
  /\ waiterRequest' = Up(waiterRequest)
  /\ cNOrders' = cNOrders + 1
  /\ cpc' = ChefLoop(cNOrders + 1)
  /\ UNCHANGED <<cfgVars, shVars, mutex, receptionistRequestPossible,
                 receptionistReq, waiterRequestPossible, chefSems, tableSems,
                 groupVars, recVars, waiterVars, lastGroup, obsVars>>

ChefStep ==
  \/ ChefWaitOrder \/ ChefTakeOrder \/ ChefAckOrder
  \/ ChefPermit \/ ChefFoodReady \/ ChefSignalWaiter

\* ========================================================== specification
Next ==
  \/ \E g \in 0 .. (MaxGroups - 1) : GroupStep(g)
  \/ ReceptionistStep
  \/ WaiterStep
  \/ ChefStep

\* every restaurant with up to MaxGroups groups and up to MaxTables tables
Spec == Init /\ [][Next]_vars

\* Restaurants with the groups' sleeps such that the groups arrive one after
\* the other, in the order of their ids, and meals are long: a group asks
\* for a table (goToRestaurant ends) once the groups before it were
\* answered, and asks for the bill (eat ends) once every group was answered
\* and every seated group has its food.  Every behaviour of this
\* specification is a behaviour of the unrestricted protocol.  The
\* restaurants: MaxGroups groups with one table (groups queue) or with a
\* table each (none queues), and MaxGroups + 1 groups with MaxTables + 1
\* tables.
InitTimed ==
  \/ \E nt \in {1, MaxGroups} : InitCfg(MaxGroups, nt)
  \/ InitCfg(MaxGroups + 1, MaxTables + 1)

ArrivesAfterOthers(g) ==
  gpc[g] = "CI_downRRP" =>
    /\ \A h \in 0 .. (g - 1) : groupRecord[h] # TOARRIVE
    /\ rpc = "WG_downReq"

MealIsLong(g) ==
  gpc[g] = "CO_downRRP" =>
    \A h \in Groups :
      /\ groupRecord[h] # TOARRIVE
      /\ groupRecord[h] = ATTABLE => groupStat[h] \in {"EAT", "CHECKOUT"}

TimedGroupStep(g) ==
  \/ g \in Groups /\ ArrivesAfterOthers(g) /\ CheckInPermit(g)
  \/ CheckInRequest(g) \/ CheckInSignal(g) \/ CheckInWaitTable(g)
  \/ OrderFoodPermit(g) \/ OrderFoodRequest(g) \/ OrderFoodSignal(g)
  \/ OrderFoodExit(g) \/ OrderFoodWaitReceived(g)
  \/ WaitFoodStatus(g) \/ WaitFoodArrived(g) \/ WaitFoodEat(g)
  \/ g \in Groups /\ MealIsLong(g) /\ CheckOutPermit(g)
  \/ CheckOutRequest(g) \/ CheckOutSignal(g)
  \/ CheckOutWaitDone(g) \/ CheckOutLeave(g)

NextTimed ==
  \/ \E g \in 0 .. MaxGroups : TimedGroupStep(g)
  \/ ReceptionistStep
  \/ WaiterStep
  \/ ChefStep

SpecTimed == InitTimed /\ [][NextTimed]_vars

\* Restaurants with one table and one or two groups, under a scheduler that
\* keeps running some process that can run: no process sleeps forever
\* (usleep returns) and a semDown on a positive semaphore returns.
InitFair == \E ng \in {1, 2} : InitCfg(ng, 1)
SpecFair == InitFair /\ [][Next]_vars /\ WF_vars(Next)

\* ------------------------------------------------------- actors' positions
GroupDone(g) == gpc[g] = "done"
ReceptionistDone == rpc = "done"
WaiterDone == wpc = "done"
ChefDone == cpc = "done"

\* the value of the semaphore the next semDown of group g is on (1 when its
\* next operation is not a semDown)
GroupNextDown(g) ==
  CASE gpc[g] \in {"CI_downRRP", "CO_downRRP"} -> receptionistRequestPossible
    [] gpc[g] \in {"CI_downMutex", "OF_downMutex", "WF_downMutex1",
                   "WF_downMutex2", "CO_downMutex1", "CO_downMutex2"} -> mutex
    [] gpc[g] = "CI_downWFT" -> waitForTable[g]
    [] gpc[g] = "OF_downWRP" -> waiterRequestPossible
    [] gpc[g] = "OF_downRR" ->
         IF gTable[g] \in Tables THEN requestReceived[gTable[g]] ELSE 0
    [] gpc[g] = "WF_downFA" ->
         IF gTable[g] \in Tables THEN foodArrived[gTable[g]] ELSE 0
    [] gpc[g] = "CO_downTD" ->
         IF gTable[g] \in Tables THEN tableDone[gTable[g]] ELSE 0
    [] OTHER -> 1

ReceptionistNextDown ==
  CASE rpc \in {"WG_downMutex1", "WG_downMutex2", "PT_downMutex",
                "RP_downMutex"} -> mutex
    [] rpc = "WG_downReq" -> receptionistReq
    [] OTHER -> 1

WaiterNextDown ==
  CASE wpc \in {"WC_downMutex1", "WC_downMutex2", "IC_downMutex",
                "TF_downMutex"} -> mutex
    [] wpc = "WC_downReq" -> waiterRequest
    [] wpc = "IC_downOrderReceived" -> orderReceived
    [] OTHER -> 1

ChefNextDown ==
  CASE cpc \in {"WO_downMutex", "PO_downMutex"} -> mutex
    [] cpc = "WO_downWaitOrder" -> waitOrder
    [] cpc = "PO_downWRP" -> waiterRequestPossible
    [] OTHER -> 1

GroupBlocked(g) == ~GroupDone(g) /\ GroupNextDown(g) = 0
ReceptionistBlocked == ~ReceptionistDone /\ ReceptionistNextDown = 0
WaiterBlocked == ~WaiterDone /\ WaiterNextDown = 0
ChefBlocked == ~ChefDone /\ ChefNextDown = 0

\* no actor can take a step: each has finished or is blocked in a semDown
Halted ==
  /\ \A g \in Groups : GroupDone(g) \/ GroupBlocked(g)
  /\ ReceptionistDone \/ ReceptionistBlocked
  /\ WaiterDone \/ WaiterBlocked
  /\ ChefDone \/ ChefBlocked

\* some group, the receptionist or the waiter has not finished, and every
\* actor that has not finished is blocked in a semDown
Deadlocked ==
  /\ \/ \E g \in Groups : ~GroupDone(g)
     \/ ~ReceptionistDone
     \/ ~WaiterDone
  /\ Halted

\* group g is inside a critical region (it holds the mutex)
GroupInside(g) == gpc[g] \in {"CI_upReq", "OF_upReq", "OF_upMutex", "CO_upReq"}

\* the next operation of group g is semDown(mutex)
GroupAtMutex(g) == gpc[g] \in {"CI_downMutex", "OF_downMutex", "WF_downMutex1",
                               "WF_downMutex2", "CO_downMutex1",
                               "CO_downMutex2"}

\* the waiter is inside a critical region (it holds the mutex)
WaiterInside == wpc = "TF_upFA"

\* the next operation of the waiter is semDown(mutex)
WaiterAtMutex == wpc \in {"WC_downMutex1", "WC_downMutex2", "IC_downMutex",
                          "TF_downMutex"}

\* the next operation of the receptionist is semDown(mutex)
ReceptionistAtMutex == rpc \in {"WG_downMutex1", "WG_downMutex2",
                                "PT_downMutex", "RP_downMutex"}

\* the receptionist is inside a critical region (it holds the mutex)
ReceptionistInside == rpc \in {"PT_upWFT", "PT_upMutex", "RP_upWFT",
                               "RP_assign", "RP_upMutex"}

\* the statuses a group writes, in the order of its life cycle
Lifecycle == <<"GOING", "ATRECEPTION", "FOOD_REQUEST", "WAIT_FOR_FOOD", "EAT",
               "CHECKOUT", "LEAVING">>
LifecycleQueued == <<"GOING", "ATRECEPTION", "WAITING", "FOOD_REQUEST",
                     "WAIT_FOR_FOOD", "EAT", "CHECKOUT", "LEAVING">>
IsPrefix(s, t) == Len(s) <= Len(t) /\ \A i \in 1 .. Len(s) : s[i] = t[i]

\* =================================================================== C1
\* C1: in every reachable state no two distinct groups have the same table
\* id (a value other than -1) in assignedTable.
C1_TablesExclusive ==
  \A g1 \in Groups : \A g2 \in Groups :
    (g1 # g2 /\ assignedTable[g1] # -1) => assignedTable[g1] # assignedTable[g2]

\* a queued group holds the table another group vacated while a further
\* group is seated or has left
C1_Witness ==
  \E g \in queued : \E h \in Groups :
    /\ assignedTable[g] # -1
    /\ h # g
    /\ groupRecord[h] = DONE

\* =================================================================== C2
\* C2: the protocol never deadlocks: no state is reachable in which some
\* group, the receptionist or the waiter has not finished its role and every
\* unfinished actor is blocked on a semaphore.
C2_NoDeadlock == ~Deadlocked

\* =================================================================== C3
\* C3: if NUMTABLES >= nGroups then every group eventually reaches LEAVING
\* (here: the run cannot halt before every group is LEAVING) and no group is
\* ever put in the waiting state.
C3_AllLeaveNoneWaits ==
  NUMTABLES >= nGroups =>
    /\ Halted => \A g \in Groups : groupStat[g] = "LEAVING"
    /\ groupsWaiting = 0
    /\ \A g \in Groups : groupRecord[g] # WAIT /\ groupStat[g] # "WAITING"

\* =================================================================== C4
\* C4: if NUMTABLES < nGroups, every group the receptionist has marked WAIT
\* is eventually assigned a table and woken (here: the run cannot halt while
\* a group is still marked WAIT, or was chosen and not yet given its table
\* and its signal).
C4_QueueDrains ==
  NUMTABLES < nGroups =>
    (Halted =>
       \A g \in Groups :
         /\ groupRecord[g] # WAIT
         /\ g \in queued => (assignedTable[g] \in Tables \/ groupRecord[g] = DONE)
         /\ gpc[g] # "CI_downWFT")

\* =================================================================== C5
\* C5: at most one written and not yet copied request is in the
\* receptionist's mailbox and at most one in the waiter's; no request is
\* copied twice, and a request a sender has written is either still unread
\* in the mailbox or has been copied once (none is overwritten or lost).
PostedTable(g) == gpc[g] \notin {"CI_downRRP", "CI_downMutex"}
PostedFood(g) == PostedTable(g) /\
                 gpc[g] \notin {"CI_upReq", "CI_downWFT", "OF_downWRP",
                                "OF_downMutex"}
PostedBill(g) == gpc[g] \in {"CO_upReq", "CO_downTD", "CO_downMutex2", "done"}
PostedReady == cNOrders + (IF cpc = "PO_upReq" THEN 1 ELSE 0)

InBox(box, unread, req) == IF unread = 1 /\ box = req THEN 1 ELSE 0

RECURSIVE SumReady(_)
SumReady(n) ==
  IF n = 0 THEN 0
  ELSE SumReady(n - 1) + wtServed[<<"FOODREADY", n - 1>>]
       + InBox(fStWaiterRequest, wtUnread, Req("FOODREADY", n - 1))

C5_MailboxSingle ==
  /\ recUnread \in {0, 1}
  /\ wtUnread \in {0, 1}
  /\ \A g \in Groups :
       /\ recServed[<<"TABLEREQ", g>>]
            + InBox(receptionistRequest, recUnread, Req("TABLEREQ", g))
          = (IF PostedTable(g) THEN 1 ELSE 0)
       /\ recServed[<<"BILLREQ", g>>]
            + InBox(receptionistRequest, recUnread, Req("BILLREQ", g))
          = (IF PostedBill(g) THEN 1 ELSE 0)
       /\ wtServed[<<"FOODREQ", g>>]
            + InBox(fStWaiterRequest, wtUnread, Req("FOODREQ", g))
          = (IF PostedFood(g) THEN 1 ELSE 0)
       /\ wtServed[<<"FOODREADY", g>>]
            + InBox(fStWaiterRequest, wtUnread, Req("FOODREADY", g)) <= 1
  /\ SumReady(nGroups) = PostedReady

\* a request is unread in each mailbox while a sender waits for the permit
C5_Witness ==
  /\ recUnread = 1
  /\ receptionistRequestPossible = 0
  /\ \E g \in Groups : gpc[g] \in {"CI_downRRP", "CO_downRRP"}
  /\ \E r \in DOMAIN wtServed : wtServed[r] = 1

\* =================================================================== C6
\* C6 (as amended): the statuses a group persists are, in this order, GOING,
\* ATRECEPTION, FOOD_REQUEST, WAIT_FOR_FOOD, EAT, CHECKOUT, LEAVING: each
\* change is one step forward, none is skipped or repeated, a group that has
\* finished has persisted all of them, and WAITING is never persisted, also
\* not by a group that was queued for a table.
C6_StatusSequence ==
  \A g \in Groups :
    /\ IsPrefix(saved[g], Lifecycle)
    /\ groupStat[g] = saved[g][Len(saved[g])]
    /\ GroupDone(g) => saved[g] = Lifecycle

\* C6 (as stated): the same, with WAITING between ATRECEPTION and
\* FOOD_REQUEST for a group that was queued for a table.
C6_AsStated ==
  \A g \in Groups :
    /\ IsPrefix(saved[g], IF g \in queued THEN LifecycleQueued ELSE Lifecycle)
    /\ groupStat[g] = saved[g][Len(saved[g])]
    /\ GroupDone(g) =>
         saved[g] = (IF g \in queued THEN LifecycleQueued ELSE Lifecycle)

\* a group that was queued for a table has finished its life cycle
C6_Witness == \E g \in queued : GroupDone(g)

\* =================================================================== C7
\* C7: each per-group and per-table signalling semaphore has at most one
\* group blocked on it at any time; in particular two groups never wait on
\* the same table's tableDone semaphore at the same time.
WaitsOnTable(g, pc) == gpc[g] = pc /\ gTable[g] \in Tables
C7_OneWaiterPerSemaphore ==
  \A g1 \in Groups : \A g2 \in Groups :
    g1 # g2 =>
      \A pc \in {"OF_downRR", "WF_downFA", "CO_downTD"} :
        ~(WaitsOnTable(g1, pc) /\ WaitsOnTable(g2, pc) /\ gTable[g1] = gTable[g2])

\* =================================================================== C8
\* C8: when group g's semDown on waitForTable[g] completes (checkInAtReception
\* returns), assignedTable[g] is a table id in 0 .. NUMTABLES-1.
C8_TableAssignedOnReturn ==
  [][\A g \in Groups :
       (gpc[g] = "CI_downWFT" /\ gpc'[g] = "OF_downWRP")
         => assignedTable'[g] \in Tables]_vars

\* =================================================================== C9
\* C9 (as amended): with 3 groups and 1 table, when all three table requests
\* were processed before any bill request, exactly one group is seated with
\* assignedTable = 0, the other two are marked WAIT by the receptionist,
\* their status stays ATRECEPTION (no WAITING status is written) and
\* groupsWaiting = 2; when the seated group's bill request has then been
\* processed, exactly one of the two, the one with the lower id, is seated
\* with assignedTable = 0 and groupsWaiting = 1.
Seated == {g \in Groups : assignedTable[g] = 0 /\ groupRecord[g] = ATTABLE}
Waiting == {g \in Groups : assignedTable[g] = -1 /\ groupRecord[g] = WAIT}

AllCheckedInNoBill ==
  /\ nGroups = 3 /\ NUMTABLES = 1
  /\ ~ReceptionistInside
  /\ \A g \in Groups : groupRecord[g] # TOARRIVE
  /\ \A g \in Groups : recServed[<<"BILLREQ", g>>] = 0

FirstBillProcessed ==
  /\ nGroups = 3 /\ NUMTABLES = 1
  /\ rpc = "RP_upTD"
  /\ groupsWaiting = 1

ScenarioAfterCheckIn(waitingStatus) ==
  AllCheckedInNoBill =>
    /\ Cardinality(Seated) = 1
    /\ Cardinality(Waiting) = 2
    /\ \A g \in Waiting : groupStat[g] = waitingStatus
    /\ groupsWaiting = 2

ScenarioAfterBill ==
  FirstBillProcessed =>
    /\ Cardinality(Seated) = 1
    /\ Cardinality(Waiting) = 1
    /\ Seated \subseteq queued
    /\ \A g \in Seated : \A h \in Waiting : g < h
    /\ groupRecord[rReq.reqGroup] = DONE
    /\ assignedTable[rReq.reqGroup] = -1

C10_ReceptionistServesAll ==
  /\ rNReq <= 2 * nGroups
  /\ ReceptionistDone =>
       /\ rNReq = 2 * nGroups
       /\ \A r \in DOMAIN recServed : recServed[r] = 1
       /\ recUnread = 0
       /\ receptionistReq = 0
  /\ Halted => ReceptionistDone

\* ================================================================== C11
\* C11: the waiter's loop ends after exactly 2 * nGroups requests, one
\* FOODREQ (of the group) and one FOODREADY (of the chef) for each group; the
\* waiter eventually terminates (here: the run cannot halt before it has).
C11_WaiterServesAll ==
  /\ wNReq <= 2 * nGroups
  /\ WaiterDone =>
       /\ wNReq = 2 * nGroups
       /\ \A r \in DOMAIN wtServed : wtServed[r] = 1
       /\ wtUnread = 0
       /\ waiterRequest = 0
  /\ Halted => WaiterDone

\* ================================================================== C12
\* C12: with 1 group and 1 table, under fair scheduling the group completes
\* its life cycle up to LEAVING, the receptionist and the waiter process
\* exactly 2 requests each (never more), and both terminate.
OneGroupOneTable == nGroups = 1 /\ NUMTABLES = 1

SingleGroupCompleted ==
  /\ OneGroupOneTable
  /\ GroupDone(0)
  /\ groupStat[0] = "LEAVING"
  /\ saved[0] = Lifecycle
  /\ ReceptionistDone /\ rNReq = 2
  /\ WaiterDone /\ wNReq = 2

C12_SingleGroup ==
  /\ [](OneGroupOneTable => (rNReq <= 2 /\ wNReq <= 2))
  /\ <>(~OneGroupOneTable \/ SingleGroupCompleted)

\* the single group has left and the receptionist and the waiter have ended
C12_Witness == SingleGroupCompleted

\* ================================================================== C13
\* C13: whenever the receptionist is outside its critical regions,
\* groupsWaiting equals the number of entries of groupRecord that are WAIT;
\* groupsWaiting is never negative.
WaitRecords == {g \in Groups : groupRecord[g] = WAIT}

C13_GroupsWaitingCount ==
  /\ groupsWaiting >= 0
  /\ ~ReceptionistInside => groupsWaiting = Cardinality(WaitRecords)

\* the receptionist has left the critical region of a payment in which it
\* gave the table to one of two waiting groups
C13_Witness ==
  /\ rpc = "RP_upTD"
  /\ rNewGroup \in Groups
  /\ groupsWaiting = 1
  /\ Cardinality(WaitRecords) = 1

\* ================================================================== C14
\* C14: at most one actor is inside a region guarded by the mutex at any
\* time, no actor that holds the mutex is about to acquire it again, and
\* every step of a group, the receptionist or the waiter that writes shared
\* state (statuses, assignedTable, groupsWaiting, the mailboxes, the chef's
\* order slot) or copies it into a local variable is a step of a critical
\* region: the actor holds the mutex, or the step starts with a semDown of
\* the free mutex.
Holders ==
  Cardinality({g \in Groups : GroupInside(g)})
    + (IF ReceptionistInside THEN 1 ELSE 0)
    + (IF WaiterInside THEN 1 ELSE 0)

MutexHeldByOne ==
  /\ mutex \in {0, 1}
  /\ Holders = 1 - mutex
  /\ \A g \in Groups : ~(GroupInside(g) /\ GroupAtMutex(g))
  /\ ~(ReceptionistInside /\ ReceptionistAtMutex)
  /\ ~(WaiterInside /\ WaiterAtMutex)

UnderMutex(inside, atMutex) ==
  \/ inside /\ mutex = 0
  \/ atMutex /\ mutex = 1

SharedStateTouched ==
  \/ shVars' # shVars
  \/ gTable' # gTable
  \/ <<rReq, rTable>>' # <<rReq, rTable>>
  \/ <<wReq, wTable>>' # <<wReq, wTable>>

SharedAccessUnderMutex ==
  SharedStateTouched =>
    /\ \A g \in Groups :
         gpc'[g] # gpc[g] => UnderMutex(GroupInside(g), GroupAtMutex(g))
    /\ rpc' # rpc => UnderMutex(ReceptionistInside, ReceptionistAtMutex)
    /\ wpc' # wpc => UnderMutex(WaiterInside, WaiterAtMutex)

C14_MutexDiscipline == []MutexHeldByOne /\ [][SharedAccessUnderMutex]_vars

\* a group holds the mutex while the receptionist, the waiter and another
\* group are about to acquire it
C14_Witness ==
  /\ \E g \in Groups : GroupInside(g)
  /\ \E g \in Groups : GroupAtMutex(g)
  /\ ReceptionistAtMutex
  /\ WaiterAtMutex

\* ================================================================== C15
\* C15: groupStat[g] is changed only by steps of group g itself (no step of
\* the receptionist, the waiter, the chef or another group changes it), and
\* assignedTable is changed only by steps of the receptionist.
StepOfGroup(g) ==
  /\ gpc'[g] # gpc[g]
  /\ \A h \in Groups \ {g} : gpc'[h] = gpc[h]
  /\ UNCHANGED <<rpc, wpc, cpc>>

StepOfReceptionist == rpc' # rpc /\ UNCHANGED <<gpc, wpc, cpc>>

OwnersOnly ==
  /\ \A g \in Groups : groupStat'[g] # groupStat[g] => StepOfGroup(g)
  /\ assignedTable' # assignedTable => StepOfReceptionist

C15_OwnersOnly == [][OwnersOnly]_vars

\* a group that was given a table by the receptionist has changed its own
\* status up to EAT while another group is still on its way
C15_Witness ==
  \E g \in Groups : \E h \in Groups :
    /\ assignedTable[g] \in Tables /\ groupStat[g] = "EAT"
    /\ groupStat[h] = "GOING"

\* ================================================================== C16
\* C16: a group's status is LEAVING only after the receptionist has processed
\* that group's BILLREQ: in every reachable state groupStat[g] = LEAVING
\* implies that receivePayment has run for g (its record is DONE) and
\* assignedTable[g] = -1.
C16_LeavingAfterPayment ==
  \A g \in Groups :
    groupStat[g] = "LEAVING" =>
      /\ groupRecord[g] = DONE
      /\ assignedTable[g] = -1

\* ================================================================== C17
\* C17: when the receptionist processes a TABLEREQ, a table is free iff no
\* group's assignedTable equals it; the requesting group is given the free
\* table with the lowest number, and it is made to wait (no table written)
\* only if every table 0 .. NUMTABLES-1 is occupied at that moment.
FreeTables == {t \in Tables : \A g \in Groups : assignedTable[g] # t}

TableRequestProcessed ==
  rpc = "PT_downMutex" /\ rpc' \in {"PT_upWFT", "PT_upMutex"}

LowestFreeTable ==
  TableRequestProcessed =>
    IF FreeTables = {}
      THEN /\ rpc' = "PT_upMutex"
           /\ rTable' = -1
           /\ assignedTable' = assignedTable
      ELSE /\ rpc' = "PT_upWFT"
           /\ rTable' \in FreeTables
           /\ \A t \in FreeTables : rTable' <= t
           /\ assignedTable' =
                [assignedTable EXCEPT ![rReq.reqGroup] = rTable']

C17_LowestFreeTable == [][LowestFreeTable]_vars

\* with two tables, a group was given table 1 because table 0 was taken, and
\* a later group was made to wait
C17_Witness ==
  /\ NUMTABLES = 2
  /\ \E g \in Groups : assignedTable[g] = 1
  /\ \E g \in Groups : assignedTable[g] = 0
  /\ rpc = "PT_upMutex"

\* ================================================================== C18
\* C18: when the receptionist processes the BILLREQ of group g while
\* groupsWaiting > 0, exactly one group is seated: the group with the lowest
\* id whose record is WAIT; its record becomes ATTABLE, its waitForTable
\* semaphore is signalled exactly once, groupsWaiting decreases by exactly 1
\* and it is given exactly the table g vacated.  When groupsWaiting = 0 the
\* table is left free and no waitForTable semaphore is signalled.
PaymentDecides ==
  rpc = "RP_downMutex" /\ rpc' \in {"RP_upWFT", "RP_upMutex"}

\* the decision: who is chosen, and what happens to the records
PaymentChoice ==
  PaymentDecides =>
    /\ rTable' = assignedTable[rReq.reqGroup]
    /\ assignedTable' = [assignedTable EXCEPT ![rReq.reqGroup] = -1]
    /\ groupRecord'[rReq.reqGroup] = DONE
    /\ UNCHANGED <<waitForTable, groupsWaiting>>
    /\ IF groupsWaiting > 0
         THEN /\ rpc' = "RP_upWFT"
              /\ rNewGroup' \in WaitRecords
              /\ \A h \in WaitRecords : rNewGroup' <= h
              /\ groupRecord' = [groupRecord EXCEPT ![rReq.reqGroup] = DONE,
                                                    ![rNewGroup'] = ATTABLE]
         ELSE /\ rpc' = "RP_upMutex"
              /\ groupRecord' = [groupRecord EXCEPT ![rReq.reqGroup] = DONE]

\* the rest of the critical region: one signal, one decrement, the table
PaymentHandsOver ==
  /\ (rpc = "RP_upWFT" /\ rpc' # rpc) =>
       /\ rpc' = "RP_assign"
       /\ waitForTable' = [waitForTable EXCEPT ![rNewGroup] = @ + 1]
       /\ UNCHANGED <<assignedTable, groupsWaiting, groupRecord>>
  /\ (rpc = "RP_assign" /\ rpc' # rpc) =>
       /\ rpc' = "RP_upTD"
       /\ groupsWaiting' = groupsWaiting - 1
       /\ assignedTable' = [assignedTable EXCEPT ![rNewGroup] = rTable]
       /\ UNCHANGED <<waitForTable, groupRecord>>
  /\ (rpc = "RP_upMutex" /\ rpc' # rpc) =>
       /\ rpc' = "RP_upTD"
       /\ rTable \in FreeTables
       /\ UNCHANGED <<waitForTable, assignedTable, groupsWaiting, groupRecord>>

C18_PaymentSeatsLowestWaiting == [][PaymentChoice /\ PaymentHandsOver]_vars

\* a payment handed the vacated table over to one of two waiting groups
C18_Witness ==
  /\ rpc = "RP_upTD"
  /\ rNewGroup \in Groups
  /\ assignedTable[rNewGroup] = rTable
  /\ \E h \in Groups : h > rNewGroup /\ groupRecord[h] = WAIT

\* ================================================================== C19
\* C19: when no table is free at a group's TABLEREQ the receptionist sends no
\* signal: groupsWaiting is incremented and the group's record becomes WAIT;
\* while its record is WAIT the group stays blocked in checkInAtReception
\* with assignedTable = -1 and its waitForTable semaphore at 0, and its
\* record leaves WAIT only when a payment chooses it.
WaitingGroupBlocked ==
  \A g \in WaitRecords :
    /\ gpc[g] = "CI_downWFT"
    /\ assignedTable[g] = -1
    /\ waitForTable[g] = 0

MadeToWait ==
  /\ (TableRequestProcessed /\ FreeTables = {}) =>
       /\ groupsWaiting' = groupsWaiting + 1
       /\ groupRecord' = [groupRecord EXCEPT ![rReq.reqGroup] = WAIT]
       /\ UNCHANGED <<waitForTable, assignedTable>>
  /\ (rpc = "PT_upMutex" /\ rpc' # rpc) =>
       UNCHANGED <<waitForTable, assignedTable, groupsWaiting, groupRecord>>
  /\ \A g \in WaitRecords :
       groupRecord'[g] # WAIT => (PaymentDecides /\ rNewGroup' = g)

C19_NoSignalWhenFull == []WaitingGroupBlocked /\ [][MadeToWait]_vars

\* a group is marked WAIT and blocked while the receptionist, back in its
\* loop, has served a later request
C19_Witness ==
  \E g \in WaitRecords :
    /\ gpc[g] = "CI_downWFT"
    /\ rpc = "WG_downReq"
    /\ rNReq >= 3

\* ================================================================== C20
\* the group has returned from orderFood
PastOrderFood(g) ==
  gpc[g] \in {"WF_downMutex1", "WF_downFA", "WF_downMutex2", "CO_downRRP",
              "CO_downMutex1", "CO_upReq", "CO_downTD", "CO_downMutex2",
              "done"}

\* the waiter has read the request and has not yet sent the signal that
\* informChef (FOODREQ) or takeFoodToTable (FOODREADY) sends for it
WaiterBeforeSignal(req) ==
  /\ wReq = req
  /\ wpc \in {"WC_upWRP", "IC_downMutex", "IC_upRR", "TF_downMutex", "TF_upFA"}

\* the waiter is at or inside the critical region of informChef
WaiterInInformChef == wpc \in {"IC_downMutex", "IC_upRR"}

\* C20: a group has returned from orderFood (and so can write WAIT_FOR_FOOD)
\* only after the waiter read its FOODREQ and signalled it from informChef;
\* its status is EAT or later only after the waiter read a FOODREADY naming
\* that group and signalled it from takeFoodToTable; and while the waiter is
\* in the critical region of informChef for group g, groupStat[g] is
\* FOOD_REQUEST.
C20_WaiterBeforeGroup ==
  /\ \A g \in Groups :
       /\ (PastOrderFood(g) \/ groupStat[g] = "WAIT_FOR_FOOD") =>
            /\ wtServed[<<"FOODREQ", g>>] = 1
            /\ ~WaiterBeforeSignal(Req("FOODREQ", g))
       /\ groupStat[g] \in {"EAT", "CHECKOUT", "LEAVING"} =>
            /\ wtServed[<<"FOODREADY", g>>] = 1
            /\ ~WaiterBeforeSignal(Req("FOODREADY", g))
  /\ WaiterInInformChef =>
       /\ wReq.reqType = "FOODREQ"
       /\ wReq.reqGroup \in Groups
       /\ groupStat[wReq.reqGroup] = "FOOD_REQUEST"

\* a group eats while another group's order is in the critical region of
\* informChef
C20_Witness ==
  /\ wpc = "IC_upRR"
  /\ \E g \in Groups : groupStat[g] = "EAT" /\ wReq.reqGroup # g

\* ================================================================== C21
\* the waiter has written the order slot and has not yet been acknowledged
WaiterHasOrderOut == wpc \in {"IC_upRR", "IC_upWaitOrder", "IC_downOrderReceived"}

\* the chef has been woken for an order and has not yet acknowledged it
ChefHasOrderIn == cpc \in {"WO_downMutex", "WO_upOrderReceived"}

\* an order is in the slot, or signalled, or being taken: only while the
\* waiter is still inside informChef for that same group
OneOrderAtATime ==
  /\ waitOrder \in {0, 1}
  /\ orderReceived \in {0, 1}
  /\ (foodOrder = 1 \/ waitOrder = 1 \/ ChefHasOrderIn \/ orderReceived = 1) =>
       /\ WaiterHasOrderOut
       /\ foodGroup = wReq.reqGroup
  /\ waitOrder + orderReceived + (IF ChefHasOrderIn THEN 1 ELSE 0) <= 1

\* the step in which informChef writes the order slot finds it empty and
\* acknowledged
SlotWrittenWhenEmpty ==
  (wpc = "IC_downMutex" /\ wpc' = "IC_upRR") =>
    /\ foodOrder = 0
    /\ waitOrder = 0
    /\ orderReceived = 0
    /\ ~ChefHasOrderIn
    /\ foodOrder' = 1
    /\ foodGroup' = wReq.reqGroup

\* C21: the waiter hands at most one order at a time to the chef: the order
\* slot (foodOrder, foodGroup) is written only when the previous order has
\* been taken and acknowledged, waitOrder never exceeds 1, and while an order
\* is outstanding the waiter is inside informChef for that group.
C21_OneOrderAtATime == []OneOrderAtATime /\ [][SlotWrittenWhenEmpty]_vars

\* a second order is in the slot, signalled to the chef, after the chef
\* acknowledged a first one
C21_Witness ==
  /\ cNOrders >= 1
  /\ wpc = "IC_downOrderReceived"
  /\ waitOrder = 1
  /\ foodOrder = 1

\* ================================================================== C22
\* the receptionist is about to run provideTableOrWaitingRoom
HandlesTableRequest == rpc = "PT_downMutex"

\* C22: the assertion in decideTableOrWait never fails: whenever the
\* receptionist handles a TABLEREQ of group g its record of g is TOARRIVE or
\* WAIT (below 2); a group marked ATTABLE or DONE has no table request
\* posted nor processed, and each group's TABLEREQ is read at most once.
C22_AssertHolds ==
  /\ rpc # "assertFailed"
  /\ HandlesTableRequest =>
       /\ rReq.reqType = "TABLEREQ"
       /\ rReq.reqGroup \in Groups
       /\ groupRecord[rReq.reqGroup] < 2
  /\ (receptionistReq = 1 /\ receptionistRequest.reqType = "TABLEREQ") =>
       groupRecord[receptionistRequest.reqGroup] < 2
  /\ \A g \in Groups : recServed[<<"TABLEREQ", g>>] <= 1

\* a table request is handled while another group is already marked DONE
C22_Witness ==
  /\ HandlesTableRequest
  /\ \E h \in Groups : groupRecord[h] = DONE

\* ================================================================== C23
\* every table is in some group's entry of assignedTable
AllTablesOccupied == \A t \in Tables : \E g \in Groups : assignedTable[g] = t

\* C23: whenever groupsWaiting > 0 and the receptionist is outside its
\* critical region, every table is occupied: no table is free while a group
\* is queued.
C23_NoFreeTableWhileQueued ==
  (groupsWaiting > 0 /\ ~ReceptionistInside) => AllTablesOccupied

\* a payment has just handed its table over and a group is still queued
C23_Witness ==
  /\ rpc = "RP_upTD"
  /\ rNewGroup \in Groups
  /\ groupsWaiting > 0

\* ================================================================== C24
\* the steps in which a group reads assignedTable[g] into table_id:
\* orderFood, waitFood, checkOutAtReception
GroupReadsTable(g) ==
  /\ gpc[g] \in {"OF_upMutex", "WF_downMutex1", "CO_downMutex1"}
  /\ gpc'[g] # gpc[g]

\* the steps in which the waiter reads assignedTable[group_id] into table_id:
\* informChef, takeFoodToTable
WaiterReadsTable ==
  /\ wpc \in {"IC_downMutex", "TF_downMutex"}
  /\ wpc' # wpc

TableReadIsValid ==
  /\ \A g \in Groups :
       GroupReadsTable(g) =>
         /\ assignedTable[g] \in Tables
         /\ gTable'[g] = assignedTable[g]
  /\ WaiterReadsTable =>
       /\ wReq.reqGroup \in Groups
       /\ assignedTable[wReq.reqGroup] \in Tables
       /\ wTable' = assignedTable[wReq.reqGroup]

\* a seated status goes with a table, and whoever is about to use a
\* per-table semaphore holds a table id
SeatedHasTable ==
  /\ \A g \in Groups :
       /\ groupStat[g] \in {"FOOD_REQUEST", "WAIT_FOR_FOOD", "EAT"} =>
            assignedTable[g] \in Tables
       /\ gpc[g] \in {"OF_downRR", "WF_downFA", "CO_upReq", "CO_downTD"} =>
            gTable[g] \in Tables
  /\ wpc \in {"IC_upRR", "TF_upFA"} => wTable \in Tables

\* C24: every time a group (orderFood, waitFood, checkOutAtReception) or the
\* waiter (informChef, takeFoodToTable) reads assignedTable[g] to choose a
\* per-table semaphore the value is a table id in 0 .. NUMTABLES - 1, never
\* -1; and a group whose status is FOOD_REQUEST, WAIT_FOR_FOOD or EAT has a
\* table id in assignedTable.
C24_TableReadsValid == []SeatedHasTable /\ [][TableReadIsValid]_vars

\* a group that had to queue has read the table it was handed and waits on
\* that table's semaphore
C24_Witness ==
  \E g \in Groups :
    /\ g \in queued
    /\ gpc[g] = "WF_downFA"
    /\ gTable[g] \in Tables
    /\ wpc = "TF_upFA"
    /\ wReq.reqGroup = g

\* ================================================================== C25
Binary(s) == s \in {0, 1}

\* C25: every signalling semaphore stays binary: receptionistReq,
\* waiterRequest, waitForTable[g], requestReceived[t], foodArrived[t] and
\* tableDone[t] are 0 or 1 in every reachable state, and for each mailbox
\* the permit and the request semaphore sum to at most 1.
C25_SignalsBinary ==
  /\ Binary(receptionistReq)
  /\ Binary(waiterRequest)
  /\ \A g \in Groups : Binary(waitForTable[g])
  /\ \A t \in Tables :
       /\ Binary(requestReceived[t])
       /\ Binary(foodArrived[t])
       /\ Binary(tableDone[t])
  /\ receptionistRequestPossible + receptionistReq <= 1
  /\ waiterRequestPossible + waiterRequest <= 1

\* ================================================================== C26
\* the receptionist's record of g and g's entry of assignedTable agree
RecordAgrees(g) ==
  /\ groupRecord[g] \in {TOARRIVE, WAIT, ATTABLE, DONE}
  /\ groupRecord[g] = ATTABLE <=> assignedTable[g] \in Tables
  /\ groupRecord[g] \in {TOARRIVE, WAIT, DONE} <=> assignedTable[g] = -1

RecordsAgreeOutside ==
  ~ReceptionistInside => \A g \in Groups : RecordAgrees(g)

\* the changes of a record: TOARRIVE -> WAIT, TOARRIVE -> ATTABLE,
\* WAIT -> ATTABLE, ATTABLE -> DONE
RecordMovesForward ==
  \A g \in Groups :
    groupRecord'[g] # groupRecord[g] =>
      <<groupRecord[g], groupRecord'[g]>> \in
        {<<TOARRIVE, WAIT>>, <<TOARRIVE, ATTABLE>>, <<WAIT, ATTABLE>>,
         <<ATTABLE, DONE>>}

\* C26: whenever the receptionist is outside its critical region,
\* groupRecord[g] = ATTABLE iff assignedTable[g] is a table id, and
\* groupRecord[g] is TOARRIVE, WAIT or DONE iff assignedTable[g] = -1; a
\* record only moves forward TOARRIVE -> (WAIT ->) ATTABLE -> DONE.
C26_RecordAgreesWithTable == []RecordsAgreeOutside /\ [][RecordMovesForward]_vars

\* outside the critical region: a group that went through WAIT is seated,
\* another is DONE, another still waits
C26_Witness ==
  /\ ~ReceptionistInside
  /\ \E g \in Groups :
       /\ g \in queued
       /\ groupRecord[g] = ATTABLE
       /\ assignedTable[g] \in Tables
  /\ \E h \in Groups : groupRecord[h] = DONE /\ assignedTable[h] = -1
  /\ \E w \in Groups : groupRecord[w] = WAIT /\ assignedTable[w] = -1

====
